---- MODULE Spec2Model ----
(***************************************************************************)
(* Model of stereoDNN/lib/kernels.cu (redtail): the grid planner           *)
(* getBlockCount, the post-launch checks CHECKK / SYNC_AND_CHECK_STREAM,   *)
(* the cost-volume kernels, the bias kernel and the fp32/fp16 conversion   *)
(* kernels, together with the host functions that launch them.             *)
(*                                                                         *)
(* Machine integers.  TLC's integers are 32-bit signed, so a uint32_t or   *)
(* a size_t is kept as a little-endian sequence of 16-bit limbs: a         *)
(* uint32_t is <<lo, hi>>, a size_t is <<l0, l1, l2, l3>>.  Arithmetic on  *)
(* them wraps at the width of the C type.  Quantities that the kernels     *)
(* compute from the (small) modelled tensor shapes stay far below 2^31 and *)
(* are kept as plain integers.                                             *)
(***************************************************************************)
EXTENDS Integers, Sequences, FiniteSets, TLC

VARIABLES
    op,        \* the operation being executed
    debug,     \* TRUE iff NDEBUG is not defined (assert and SYNC active)
    in,        \* the operation's arguments (shape descriptors, sizes, data)
    host,      \* position of the calling host thread inside the operation
    grid,      \* g_dim computed by the operation
    launched,  \* number of kernel launches issued by the operation so far
    lastError, \* the runtime's last-error slot read by cudaGetLastError
    devErr,    \* sticky error of a kernel that faulted while executing
    stream,    \* kernels enqueued on the stream and not yet completed
    threads,   \* progress of the threads of the kernel at the stream's head
    dst,       \* destination elements stored so far: index -> value
    writes,    \* history of stores: <<index, <<launch, thread, n>> >>
    checked,   \* results of the cudaGetLastError queries, in order
    status,    \* what the operation returned ("none" while it is running)
    faultAt,   \* number of launches issued when a kernel faulted (-1: none)
    ret        \* outcome of a direct getBlockCount call

vars == <<op, debug, in, host, grid, launched, lastError, devErr, stream,
          threads, dst, writes, checked, status, faultAt, ret>>

-----------------------------------------------------------------------------
(* Bounds of the model. *)

MaxC == 2          \* channels C (and batch N of the bias operation)
MaxH == 2          \* rows H
MaxW == 4          \* columns W
MaxDisp == 2       \* disparities D (and depth D of the bias operation)
MaxActive == 4     \* largest number of in-range threads of one launch
MaxTotal == 33     \* getBlockCount totals 0..MaxTotal and 2^32-MaxTotal..2^32-1
MaxBlockSize == 3  \* getBlockCount block sizes 0..MaxBlockSize, and 16, 256

-----------------------------------------------------------------------------
(* Limb arithmetic for uint32_t and size_t. *)

Base == 2^16

\* The uint32_t with value n, for 0 <= n < 2^31.
U32(n) == <<n % Base, n \div Base>>

\* The size_t 2^32 * top + n, for 0 <= n < 2^31 and 0 <= top < 2^16.
U64(top, n) == <<n % Base, n \div Base, top, 0>>

\* uint32_t -> size_t (zero extension) and size_t -> uint32_t (truncation).
Widen(u) == <<u[1], u[2], 0, 0>>
Trunc32(s) == <<s[1], s[2]>>

\* a < b and a <= b for two limb sequences of the same length.
RECURSIVE LimbsLT(_, _)
LimbsLT(a, b) ==
    IF Len(a) = 0 THEN FALSE
    ELSE LET n == Len(a) IN
         IF a[n] # b[n] THEN a[n] < b[n]
         ELSE LimbsLT(SubSeq(a, 1, n - 1), SubSeq(b, 1, n - 1))

LimbsLE(a, b) == a = b \/ LimbsLT(a, b)

\* a + b and a - b modulo 2^32.
U32Add(a, b) ==
    LET s0 == a[1] + b[1]
        s1 == a[2] + b[2] + (s0 \div Base)
    IN  <<s0 % Base, s1 % Base>>

U32Sub(a, b) ==
    LET d0 == a[1] - b[1]
        bw == IF d0 < 0 THEN 1 ELSE 0
        d1 == a[2] - b[2] - bw
    IN  <<(d0 + Base) % Base, (d1 + Base) % Base>>

\* a / d for a uint32_t a and a divisor 0 < d < 2^15 (schoolbook division).
U32Div(a, d) ==
    LET qh == a[2] \div d
        r  == a[2] % d
        lo == r * Base + a[1]
    IN  <<lo \div d, qh>>

\* (size_t)a * d for a uint32_t a and 0 <= d < 2^15: a size_t, never wraps.
MulWide(a, d) ==
    LET p0 == a[1] * d
        p1 == a[2] * d + (p0 \div Base)
    IN  <<p0 % Base, p1 % Base, p1 \div Base, 0>>

-----------------------------------------------------------------------------
(* getBlockCount.  The outcome of a call is a record: kind "return" with   *)
(* the value res, kind "assert" (an assertion failed: the process aborts)  *)
(* or kind "sigfpe" (the division trapped).  A division by zero is         *)
(* undefined behaviour: the hardware traps (x86) or yields 0 (AArch64).    *)

DivOutcomes(a, d) ==
    IF d = 0 THEN {<<"sigfpe", U32(0)>>, <<"value", U32(0)>>}
    ELSE {<<"value", U32Div(a, d)>>}

\* The dividend "total_size + block_size - 1", evaluated in uint32_t.
RoundUpSum(total_size, block_size) ==
    U32Sub(U32Add(total_size, U32(block_size)), U32(1))

\* assert(res > 0); assert((size_t)res * block_size >= total_size);
AssertsHold(res, total_size, block_size) ==
    /\ LimbsLT(U32(0), res)
    /\ LimbsLE(Widen(total_size), MulWide(res, block_size))

\* asserts == TRUE iff NDEBUG is not defined (assert expands to its test).
getBlockCount(total_size, block_size, asserts) ==
    LET After(q) ==
            IF q[1] = "sigfpe" THEN [kind |-> "sigfpe", res |-> U32(0)]
            ELSE IF asserts /\ ~ AssertsHold(q[2], total_size, block_size)
                 THEN [kind |-> "assert", res |-> q[2]]
                 ELSE [kind |-> "return", res |-> q[2]]
    IN  {After(q) : q \in DivOutcomes(RoundUpSum(total_size, block_size), block_size)}

-----------------------------------------------------------------------------
(* Program constants and launch geometry. *)

kMaxGridSizeY == 65535
kMaxGridSizeZ == 65535

\* dim3 b_dim{16, 16, 1} of the cost-volume and bias launches, and
\* dim3 b_dim{256, 1, 1} of the conversion launches.
BlockDim2D == <<16, 16, 1>>
BlockDim1D == <<256, 1, 1>>

KernelsOf(o) ==
    CASE o = "computeCostVolume" -> <<"costVolumeCopyKernel", "costVolumeCopyPadKernel">>
      [] o = "addDBiasTo3DConv"  -> <<"addDBiasTo3DConvKernel">>
      [] o = "fp32Tofp16"        -> <<"fp32Tofp16Kernel">>
      [] o = "fp16Tofp32"        -> <<"fp16Tofp32Kernel">>
      [] OTHER                   -> <<>>

BlockDimOf(kernel) ==
    IF kernel \in {"fp32Tofp16Kernel", "fp16Tofp32Kernel"} THEN BlockDim1D ELSE BlockDim2D

\* The value of a uint32_t below 2^31.
U32Val(u) == u[2] * Base + u[1]

\* A thread is <<blockIdx.x, blockIdx.y, blockIdx.z, threadIdx.x, threadIdx.y,
\* threadIdx.z>>; the grid g is <<g_dim.x, g_dim.y, g_dim.z>> as integers.
GridThreads(g, bdim) ==
    (0 .. g[1] - 1) \X (0 .. g[2] - 1) \X (0 .. g[3] - 1)
        \X (0 .. bdim[1] - 1) \X (0 .. bdim[2] - 1) \X (0 .. bdim[3] - 1)

\* blockIdx.x * blockDim.x + threadIdx.x, and the same for y and z.
ThreadIx(t, bdim) == t[1] * bdim[1] + t[4]
ThreadIy(t, bdim) == t[2] * bdim[2] + t[5]
ThreadIz(t, bdim) == t[3] * bdim[3] + t[6]

-----------------------------------------------------------------------------
(* Device buffers.  A source buffer is named by a record [name, pat]; its  *)
(* element i is Load(src, i).  The contents are fixed test patterns, so a  *)
(* buffer of any length costs nothing to represent.                        *)

\* fp32 values as bit fields [s, e, m] (1 sign, 8 exponent, 23 mantissa bits).
F32(s, e, m) == [s |-> s, e |-> e, m |-> m]

F32Samples ==
    << F32(0, 127, 4194304),   \* 1.5
       F32(1, 255, 4194304),   \* a negative quiet NaN (0xFFC00000)
       F32(0, 0, 0),           \* 0.0
       F32(0, 127, 4096),      \* 1 + 2^-11: a tie, rounds to even (1.0)
       F32(0, 127, 12288),     \* 1 + 3*2^-11: a tie, rounds up to even
       F32(0, 142, 8384512),   \* 65520: rounds to infinity
       F32(0, 110, 0),         \* 2^-17: a half-precision subnormal
       F32(1, 255, 0) >>       \* -infinity

\* fp16 bit patterns: 1.5, -2.0, 0.0, 65504, 2^-24, +infinity, a signalling
\* NaN (0x7C01), a negative quiet NaN (0xFE00), the largest subnormal,
\* -infinity.
H16Samples == <<15872, 49152, 0, 31743, 1, 31744, 31745, 65024, 1023, 64512>>

Load(src, i) ==
    CASE src.name = "left"  -> IF src.pat = 1 THEN i + 1 ELSE 7 - 3 * i
      [] src.name = "right" -> IF src.pat = 1 THEN 10 * (i + 1) ELSE 3 * i - 3
      [] src.name = "conv"  -> IF src.pat = 1 THEN 5 + 2 * i ELSE 4 - 3 * i
      [] src.name = "bias"  -> IF src.pat = 1 THEN 100 * (i + 1) ELSE 0
      [] src.name = "f32"   -> F32Samples[(i % Len(F32Samples)) + 1]
      [] src.name = "h16"   -> H16Samples[(i % Len(H16Samples)) + 1]

-----------------------------------------------------------------------------
(* Precision conversion of one element (IEEE-754, round to nearest even).  *)
(* A NaN converts to a quiet NaN of the same sign that keeps the payload   *)
(* bits the narrower mantissa has room for.                                *)

\* The quiet bit (the top bit of a mantissa of width 2 * top) set in m.
Quiet(m, top) == IF m >= top THEN m ELSE m + top

\* __half val(src[tid]); *(uint16_t*)&val
F32ToH16(f) ==
    LET sgn == f.s * 32768
        E   == f.e - 127
    IN  IF f.e = 255 THEN sgn + 31744 + (IF f.m = 0 THEN 0 ELSE Quiet(f.m \div 8192, 512))
        ELSE IF f.e = 0 THEN sgn
        ELSE IF E > 15 THEN sgn + 31744
        ELSE IF E >= -14 THEN
            LET mant == f.m \div 8192
                rem  == f.m % 8192
                up   == IF rem > 4096 \/ (rem = 4096 /\ mant % 2 = 1) THEN 1 ELSE 0
            IN  sgn + (E + 15) * 1024 + mant + up
        ELSE IF E < -25 THEN sgn
        ELSE
            LET sig   == 8388608 + f.m
                shift == 13 + (-14 - E)
                unit  == 2 ^ shift
                mant  == sig \div unit
                rem   == sig % unit
                half  == unit \div 2
                up    == IF rem > half \/ (rem = half /\ mant % 2 = 1) THEN 1 ELSE 0
            IN  sgn + mant + up

\* (float)(*(__half*)(src + tid)): exact widening; a NaN is quieted.
H16ToF32(b) ==
    LET s == b \div 32768
        e == (b \div 1024) % 32
        m == b % 1024
    IN  IF e = 31 THEN F32(s, 255, IF m = 0 THEN 0 ELSE Quiet(m * 8192, 4194304))
        ELSE IF e # 0 THEN F32(s, e - 15 + 127, m * 8192)
        ELSE IF m = 0 THEN F32(s, 0, 0)
        ELSE LET p == CHOOSE q \in 0 .. 9 : 2 ^ q <= m /\ m < 2 ^ (q + 1)
             IN  F32(s, p - 24 + 127, (m - 2 ^ p) * (2 ^ (23 - p)))

-----------------------------------------------------------------------------
(* The kernels, one thread at a time.  A thread's effect is the sequence   *)
(* of its stores, each <<index, value>>; a thread that fails the bounds    *)
(* check returns at once and stores nothing.                               *)

\* costVolumeCopyKernel with the stride of one half instead of both halves.
costVolumeCopyKernel_HalfStride(t, src, c, h, w, disp) ==
    LET ix == ThreadIx(t, BlockDim2D)
        iy == ThreadIy(t, BlockDim2D)
        iz == ThreadIz(t, BlockDim2D)
        isrc   == iz * h * w + iy * w + ix
        stride == c * h * w
    IN  IF ix >= w \/ iy >= h \/ iz >= c THEN << >>
        ELSE [idst \in 1 .. disp |-> <<isrc + (idst - 1) * stride, Load(src, isrc)>>]

\* costVolumeCopyKernel<<<..>>>(src, c, h, w, disp, dst), thread t.
costVolumeCopyKernel(t, src, c, h, w, disp) ==
    LET ix == ThreadIx(t, BlockDim2D)
        iy == ThreadIy(t, BlockDim2D)
        iz == ThreadIz(t, BlockDim2D)
        isrc   == iz * h * w + iy * w + ix
        stride == 2 * c * h * w
    IN  IF ix >= w \/ iy >= h \/ iz >= c THEN << >>
        ELSE [idst \in 1 .. disp |-> <<isrc + (idst - 1) * stride, Load(src, isrc)>>]

\* costVolumeCopyPadKernel with the zero fill test off by one ("ix <= pad").
costVolumeCopyPadKernel_OffByOne(t, src, c, h, w, disp) ==
    LET ix == ThreadIx(t, BlockDim2D)
        iy == ThreadIy(t, BlockDim2D)
        iz == ThreadIz(t, BlockDim2D)
        isrc   == iz * h * w + iy * w + ix
        stride == c * h * w
        idst   == isrc + stride
    IN  IF ix >= w \/ iy >= h \/ iz >= c THEN << >>
        ELSE [n \in 1 .. disp |->
                LET pad == n - 1 IN
                <<idst + pad * (2 * stride),
                  IF ix <= pad THEN 0 ELSE Load(src, isrc - pad)>>]

\* costVolumeCopyPadKernel<<<..>>>(src, c, h, w, disp, dst), thread t.
costVolumeCopyPadKernel(t, src, c, h, w, disp) ==
    LET ix == ThreadIx(t, BlockDim2D)
        iy == ThreadIy(t, BlockDim2D)
        iz == ThreadIz(t, BlockDim2D)
        isrc   == iz * h * w + iy * w + ix
        stride == c * h * w
        idst   == isrc + stride
    IN  IF ix >= w \/ iy >= h \/ iz >= c THEN << >>
        ELSE [n \in 1 .. disp |->
                LET pad == n - 1 IN
                <<idst + pad * (2 * stride),
                  IF ix < pad THEN 0 ELSE Load(src, isrc - pad)>>]

\* costVolumeKernel reading the right map shifted the other way ("iright + pad").
costVolumeKernel_ShiftOtherWay(t, left, right, c, h, w, disp) ==
    LET ix == ThreadIx(t, BlockDim2D)
        iy == ThreadIy(t, BlockDim2D)
        iz == ThreadIz(t, BlockDim2D)
        stride == c * h * w
        ileft  == iz * h * w + iy * w + ix
        iright == ileft
        StoreR(pad) == <<iright + stride + pad * (2 * stride),
                         IF ix < pad THEN 0 ELSE Load(right, iright + pad)>>
        StoreL(pad) == <<ileft + pad * (2 * stride), Load(left, ileft)>>
    IN  IF ix >= w \/ iy >= h \/ iz >= c THEN << >>
        ELSE [n \in 1 .. 2 * disp |->
                IF n % 2 = 1 THEN StoreR((n - 1) \div 2) ELSE StoreL((n - 2) \div 2)]

\* The unused single-pass kernel costVolumeKernel<<<..>>>(left, right, c, h, w,
\* disp, dst), thread t: per iteration the store through pdst_r, then the
\* store through pdst_l.
costVolumeKernel(t, left, right, c, h, w, disp) ==
    LET ix == ThreadIx(t, BlockDim2D)
        iy == ThreadIy(t, BlockDim2D)
        iz == ThreadIz(t, BlockDim2D)
        stride == c * h * w
        ileft  == iz * h * w + iy * w + ix
        iright == ileft
        StoreR(pad) == <<iright + stride + pad * (2 * stride),
                         IF ix < pad THEN 0 ELSE Load(right, iright - pad)>>
        StoreL(pad) == <<ileft + pad * (2 * stride), Load(left, ileft)>>
    IN  IF ix >= w \/ iy >= h \/ iz >= c THEN << >>
        ELSE [n \in 1 .. 2 * disp |->
                IF n % 2 = 1 THEN StoreR((n - 1) \div 2) ELSE StoreL((n - 2) \div 2)]

\* addDBiasTo3DConvKernel taking the depth index modulo c instead of d.
addDBiasTo3DConvKernel_WrongMod(t, bias, c, d, h, w) ==
    LET ix == ThreadIx(t, BlockDim2D)
        iy == ThreadIy(t, BlockDim2D)
        iz == ThreadIz(t, BlockDim2D)
        cur_d == iz % c
        idst  == iz * h * w + iy * w + ix
    IN  IF ix >= w \/ iy >= h \/ iz >= d * c THEN << >>
        ELSE << <<idst, Load(bias, cur_d)>> >>

\* addDBiasTo3DConvKernel<<<..>>>(bias, c, d, h, w, conv), thread t: the element
\* it updates and the bias it adds; << >> if it fails the bounds check.
addDBiasTo3DConvKernel(t, bias, c, d, h, w) ==
    LET ix == ThreadIx(t, BlockDim2D)
        iy == ThreadIy(t, BlockDim2D)
        iz == ThreadIz(t, BlockDim2D)
        cur_d == iz % d
        idst  == iz * h * w + iy * w + ix
    IN  IF ix >= w \/ iy >= h \/ iz >= d * c THEN << >>
        ELSE << <<idst, Load(bias, cur_d)>> >>

\* fp32Tofp16Kernel<<<..>>>(src, dst, size), thread t; size is a size_t.
fp32Tofp16Kernel(t, src, size) ==
    LET tid == ThreadIx(t, BlockDim1D)
    IN  IF LimbsLE(size, Widen(U32(tid))) THEN << >>
        ELSE << <<tid, F32ToH16(Load(src, tid))>> >>

\* fp16Tofp32Kernel<<<..>>>(src, dst, size), thread t; size is a size_t.
fp16Tofp32Kernel(t, src, size) ==
    LET tid == ThreadIx(t, BlockDim1D)
    IN  IF LimbsLE(size, Widen(U32(tid))) THEN << >>
        ELSE << <<tid, H16ToF32(Load(src, tid))>> >>

-----------------------------------------------------------------------------
(* Host side: the grid each operation computes.  An outcome is             *)
(* [kind, g]: kind "return" with g = <<g_dim.x, g_dim.y, g_dim.z>>         *)
(* (uint32_t each), or the kind of the fatal end of the process.           *)

\* g_dim.x, g_dim.y, g_dim.z evaluated in order from three getBlockCount calls.
GridFrom(X, Y, Z) ==
    { IF ox.kind # "return" THEN [kind |-> ox.kind, g |-> <<U32(1), U32(1), U32(1)>>]
      ELSE IF oy.kind # "return" THEN [kind |-> oy.kind, g |-> <<ox.res, U32(1), U32(1)>>]
      ELSE IF oz.kind # "return" THEN [kind |-> oz.kind, g |-> <<ox.res, oy.res, U32(1)>>]
      ELSE [kind |-> "return", g |-> <<ox.res, oy.res, oz.res>>]
      : ox \in X, oy \in Y, oz \in Z }

\* dim3 g_dim leaves y and z at 1.
DefaultDim == {[kind |-> "return", res |-> U32(1)]}

\* computeCostVolume: in_dims = [c, h, w].
CostVolumeGrid(a, asserts) ==
    GridFrom(getBlockCount(U32(a.w), BlockDim2D[1], asserts),
             getBlockCount(U32(a.h), BlockDim2D[2], asserts),
             getBlockCount(U32(a.c), BlockDim2D[3], asserts))

\* addDBiasTo3DConv: conv_dims = [n, d, h, w]; then the two grid-size assertions.
BiasGrid(a, asserts) ==
    LET G == GridFrom(getBlockCount(U32(a.w), BlockDim2D[1], asserts),
                      getBlockCount(U32(a.h), BlockDim2D[2], asserts),
                      getBlockCount(U32(a.n * a.d), BlockDim2D[3], asserts))
        Asserted(o) ==
            IF o.kind = "return" /\ asserts
               /\ ~ (LimbsLE(o.g[2], U32(kMaxGridSizeY)) /\ LimbsLE(o.g[3], U32(kMaxGridSizeZ)))
            THEN [kind |-> "assert", g |-> o.g]
            ELSE o
    IN  {Asserted(o) : o \in G}

\* fp32Tofp16 / fp16Tofp32: getBlockCount(size, b_dim.x) narrows the size_t.
ConvertGrid(a, asserts) ==
    GridFrom(getBlockCount(Trunc32(a.size), BlockDim1D[1], asserts), DefaultDim, DefaultDim)

GridOf(o, a, asserts) ==
    CASE o = "computeCostVolume" -> CostVolumeGrid(a, asserts)
      [] o = "addDBiasTo3DConv"  -> BiasGrid(a, asserts)
      [] OTHER                   -> ConvertGrid(a, asserts)

\* The launch <<<g_dim, b_dim, 0, stream>>>: the runtime rejects a grid with a
\* zero extent, with x above 2^31 - 1 or with y or z above 65535.
LaunchConfigError(g) ==
    IF g[1] = U32(0) \/ g[2] = U32(0) \/ g[3] = U32(0)
       \/ g[1][2] >= 2^15
       \/ ~ LimbsLE(g[2], U32(kMaxGridSizeY))
       \/ ~ LimbsLE(g[3], U32(kMaxGridSizeZ))
    THEN "cudaErrorInvalidConfiguration"
    ELSE "cudaSuccess"

\* What a launch with a valid configuration can still report.
LaunchResults == {"cudaSuccess", "cudaErrorLaunchOutOfResources"}

\* CHECKK that never returns early.
CheckFails_Never(e) == FALSE

\* CHECKK: "if (status != cudaSuccess) return status;"
CheckFails(e) == e # "cudaSuccess"

\* SYNC_AND_CHECK_STREAM compiled out in every build.
SyncCompiledIn_Never(dbg) == FALSE

\* SYNC_AND_CHECK_STREAM expands to cudaStreamSynchronize iff NDEBUG is undefined.
SyncCompiledIn(dbg) == dbg

-----------------------------------------------------------------------------
(* Device side. *)

\* The stores of thread t of the enqueued kernel k = [name, k, g].
Program(k, t) ==
    CASE k.name = "costVolumeCopyKernel" ->
            costVolumeCopyKernel(t, [name |-> "left", pat |-> in.pat],
                                 in.c, in.h, in.w, in.disp)
      [] k.name = "costVolumeCopyPadKernel" ->
            costVolumeCopyPadKernel(t, [name |-> "right", pat |-> in.pat],
                                    in.c, in.h, in.w, in.disp)
      [] k.name = "addDBiasTo3DConvKernel" ->
            addDBiasTo3DConvKernel(t, [name |-> "bias", pat |-> in.pat],
                                   in.n, in.d, in.h, in.w)
      [] k.name = "fp32Tofp16Kernel" ->
            fp32Tofp16Kernel(t, [name |-> "f32", pat |-> in.pat], in.size)
      [] k.name = "fp16Tofp32Kernel" ->
            fp16Tofp32Kernel(t, [name |-> "h16", pat |-> in.pat], in.size)

\* Steps a thread takes: one per store, two (load, store) for "+=".  A thread
\* of a conversion kernel that passed the bounds check has its one store.
Steps(k, t) ==
    IF k.name = "addDBiasTo3DConvKernel" THEN 2 * Len(Program(k, t))
    ELSE IF BlockDimOf(k.name) = BlockDim1D THEN 1
    ELSE Len(Program(k, t))

EmptyFn == [x \in {} |-> 0]

\* Threads of the grid that pass the bounds check; the others return at once.
StartThreads(k) ==
    [t \in {u \in GridThreads(k.g, BlockDimOf(k.name)) : Len(Program(k, u)) > 0}
        |-> [pc |-> 0, tmp |-> 0]]

Finished(k, t) == threads[t].pc >= Steps(k, t)

\* conv[i] as a thread reads it: the stored value, else the caller's content.
ConvAt(i) == IF i \in DOMAIN dst THEN dst[i] ELSE Load([name |-> "conv", pat |-> in.pat], i)

WritersOf(i) == {e[2] : e \in {x \in writes : x[1] = i}}

-----------------------------------------------------------------------------
(* Initial states. *)

BigH == BlockDim2D[2] * kMaxGridSizeY + 1
BigC == kMaxGridSizeZ + 1

CostVolumeArgs ==
    { [c |-> c, h |-> h, w |-> w, disp |-> d, pat |-> p] :
        c \in 1 .. MaxC, h \in 1 .. MaxH, w \in 1 .. MaxW, d \in 1 .. MaxDisp, p \in 1 .. 2 }

BiasArgs ==
    { [n |-> n, d |-> d, h |-> h, w |-> w, pat |-> p] :
        n \in 1 .. MaxC, d \in 1 .. MaxDisp, h \in 1 .. MaxH, w \in 1 .. MaxW, p \in 1 .. 2 }

InitArgs ==
    [computeCostVolume |->
        {a \in CostVolumeArgs : a.c * a.h * a.w <= MaxActive}
        \cup {[c |-> BigC, h |-> 1, w |-> 1, disp |-> 1, pat |-> 1],
              [c |-> 1, h |-> BigH, w |-> 1, disp |-> 1, pat |-> 1]},
     addDBiasTo3DConv |->
        {a \in BiasArgs : a.n * a.d * a.h * a.w <= MaxActive}
        \cup {[n |-> BigC \div 2, d |-> 2, h |-> 1, w |-> 1, pat |-> 1],
              [n |-> 1, d |-> 1, h |-> BigH, w |-> 1, pat |-> 1]},
     fp32Tofp16 |->
        {[size |-> s, pat |-> 1] :
            s \in {U64(0, n) : n \in 0 .. MaxActive}
                  \cup {<<Base - 1, Base - 1, 0, 0>>, U64(1, 0)}},
     fp16Tofp32 |->
        {[size |-> s, pat |-> 1] :
            s \in {U64(0, n) : n \in 0 .. MaxActive}
                  \cup {<<Base - 1, Base - 1, 0, 0>>, U64(1, 0)}},
     getBlockCount |->
        {[total |-> t, bs |-> b] :
            t \in {U32(n) : n \in 0 .. MaxTotal}
                  \cup {U32Sub(U32(0), U32(n)) : n \in 1 .. MaxTotal},
            b \in (0 .. MaxBlockSize) \cup {BlockDim2D[1], BlockDim1D[1]}}]

Init ==
    /\ op \in DOMAIN InitArgs
    /\ debug \in BOOLEAN
    /\ in \in InitArgs[op]
    /\ host = "call"
    /\ grid = <<U32(1), U32(1), U32(1)>>
    /\ launched = 0
    /\ lastError = "cudaSuccess"
    /\ devErr = "cudaSuccess"
    /\ stream = << >>
    /\ threads = EmptyFn
    /\ dst = EmptyFn
    /\ writes = {}
    /\ checked = << >>
    /\ status = "none"
    /\ faultAt = -1
    /\ ret = [kind |-> "none", res |-> U32(0)]

-----------------------------------------------------------------------------
(* Host actions. *)

\* After a launch has been checked: the next launch, or "return cudaSuccess".
Proceed ==
    IF launched < Len(KernelsOf(op))
    THEN host' = "launch" /\ status' = status
    ELSE host' = "done" /\ status' = "cudaSuccess"

\* Entry of an operation up to its first launch: g_dim and the assertions on it.
Call ==
    /\ host = "call"
    /\ op # "getBlockCount"
    /\ \E o \in GridOf(op, in, debug) :
          /\ grid' = o.g
          /\ IF o.kind = "return"
             THEN host' = "launch" /\ status' = status
             ELSE host' = "done" /\ status' = o.kind
    /\ UNCHANGED <<op, debug, in, launched, lastError, devErr, stream, threads,
                   dst, writes, checked, faultAt, ret>>

\* kernel<<<g_dim, b_dim, 0, stream>>>(...): asynchronous, returns at once.
Launch ==
    /\ host = "launch"
    /\ \E r \in LaunchResults :
          LET cfg == LaunchConfigError(grid)
              e   == IF devErr # "cudaSuccess" THEN devErr
                     ELSE IF cfg # "cudaSuccess" THEN cfg ELSE r
              k   == [name |-> KernelsOf(op)[launched + 1], k |-> launched + 1,
                      g |-> <<U32Val(grid[1]), U32Val(grid[2]), U32Val(grid[3])>>]
          IN  IF e = "cudaSuccess"
              THEN /\ stream' = Append(stream, k)
                   /\ threads' = IF stream = << >> THEN StartThreads(k) ELSE threads
                   /\ lastError' = lastError
              ELSE /\ lastError' = e
                   /\ UNCHANGED <<stream, threads>>
    /\ launched' = launched + 1
    /\ host' = "check"
    /\ UNCHANGED <<op, debug, in, grid, devErr, dst, writes, checked, status,
                   faultAt, ret>>

\* CHECKK up to SYNC_AND_CHECK_STREAM: cudaGetLastError reads and clears the
\* last-error slot (a sticky device error stays).
Check ==
    /\ host = "check"
    /\ LET e == IF devErr # "cudaSuccess" THEN devErr ELSE lastError
       IN  /\ checked' = Append(checked, e)
           /\ IF CheckFails(e) THEN host' = "done" /\ status' = e
              ELSE IF SyncCompiledIn(debug) THEN host' = "sync" /\ status' = status
              ELSE Proceed
    /\ lastError' = "cudaSuccess"
    /\ UNCHANGED <<op, debug, in, grid, launched, devErr, stream, threads, dst,
                   writes, faultAt, ret>>

\* SYNC_AND_CHECK_STREAM in a debug build: cudaStreamSynchronize blocks until
\* the stream has drained or a kernel has faulted, and returns the fault.
Sync ==
    /\ host = "sync"
    /\ stream = << >> \/ devErr # "cudaSuccess"
    /\ IF devErr # "cudaSuccess" THEN host' = "done" /\ status' = devErr
       ELSE Proceed
    /\ UNCHANGED <<op, debug, in, grid, launched, lastError, devErr, stream,
                   threads, dst, writes, checked, faultAt, ret>>

\* A direct call of the helper.
ApplyGetBlockCount ==
    /\ host = "call"
    /\ op = "getBlockCount"
    /\ ret' \in getBlockCount(in.total, in.bs, debug)
    /\ host' = "done"
    /\ UNCHANGED <<op, debug, in, grid, launched, lastError, devErr, stream,
                   threads, dst, writes, checked, status, faultAt>>

-----------------------------------------------------------------------------
(* Device actions. *)

Running == stream # << >> /\ devErr = "cudaSuccess"

\* One step of thread t of the running kernel: a store "*pdst = ..." of a copy
\* kernel, the load or the store of "conv[idst] += bias[cur_d]", or the store
\* "dst[tid] = ..." of a conversion kernel.
ThreadStepOf(t) ==
    LET k  == Head(stream)
        pc == threads[t].pc
    IN  /\ ~ Finished(k, t)
        /\ IF k.name = "addDBiasTo3DConvKernel"
           THEN LET st == Program(k, t)[1] IN
                IF pc = 0
                THEN /\ threads' = [threads EXCEPT ![t] = [pc |-> 1, tmp |-> ConvAt(st[1])]]
                     /\ UNCHANGED <<dst, writes>>
                ELSE /\ threads' = [threads EXCEPT ![t].pc = 2]
                     /\ dst' = (st[1] :> (threads[t].tmp + st[2])) @@ dst
                     /\ writes' = writes \cup {<<st[1], <<k.k, t, 1>> >>}
           ELSE LET st == Program(k, t)[pc + 1] IN
                /\ threads' = [threads EXCEPT ![t].pc = pc + 1]
                /\ dst' = (st[1] :> st[2]) @@ dst
                /\ writes' = writes \cup {<<st[1], <<k.k, t, pc + 1>> >>}
        /\ UNCHANGED <<op, debug, in, host, grid, launched, lastError, devErr, stream,
                       checked, status, faultAt, ret>>

\* Any thread of the running kernel that has not finished takes its next step:
\* the threads of a launch interleave without restriction.
ThreadStep ==
    /\ Running
    /\ \E t \in DOMAIN threads : ThreadStepOf(t)

\* The kernel at the head of the stream has run all its threads: the next
\* kernel enqueued on the stream starts (in-order execution).
KernelComplete ==
    /\ Running
    /\ \A t \in DOMAIN threads : Finished(Head(stream), t)
    /\ stream' = Tail(stream)
    /\ threads' = IF Tail(stream) = << >> THEN EmptyFn ELSE StartThreads(Head(Tail(stream)))
    /\ UNCHANGED <<op, debug, in, host, grid, launched, lastError, devErr, dst,
                   writes, checked, status, faultAt, ret>>

\* A fault while a kernel executes (an illegal address, a device assertion):
\* the kernel dies, the work behind it is discarded and the error is sticky.
ExecFault ==
    /\ Running
    /\ devErr' = "cudaErrorIllegalAddress"
    /\ stream' = << >>
    /\ threads' = EmptyFn
    /\ faultAt' = launched
    /\ UNCHANGED <<op, debug, in, host, grid, launched, lastError, dst, writes,
                   checked, status, ret>>

Next ==
    \/ Call
    \/ Launch
    \/ Check
    \/ Sync
    \/ ApplyGetBlockCount
    \/ ThreadStep
    \/ KernelComplete
    \/ ExecFault

Spec == Init /\ [][Next]_vars

-----------------------------------------------------------------------------
(* The grid computation of the conversions on its own.  fp32Tofp16 and     *)
(* fp16Tofp32 compute g_dim from size before anything is launched; this    *)
(* specification applies that computation to element counts on both sides  *)
(* of 2^32 and of the block size, whatever the number of threads the grid  *)
(* would start.                                                            *)

PlanArgs ==
    {[size |-> s, pat |-> 1] :
        s \in {U64(0, n) : n \in 0 .. MaxTotal}
              \cup {U64(0, BlockDim1D[1] + n) : n \in 0 .. MaxTotal}
              \cup {Widen(U32Sub(U32(0), U32(n))) : n \in 1 .. MaxTotal}
              \cup {U64(1, n) : n \in 0 .. MaxTotal}}

InitPlan ==
    /\ op \in {"fp32Tofp16", "fp16Tofp32"}
    /\ debug \in BOOLEAN
    /\ in \in PlanArgs
    /\ host = "call"
    /\ grid = <<U32(1), U32(1), U32(1)>>
    /\ launched = 0
    /\ lastError = "cudaSuccess"
    /\ devErr = "cudaSuccess"
    /\ stream = << >>
    /\ threads = EmptyFn
    /\ dst = EmptyFn
    /\ writes = {}
    /\ checked = << >>
    /\ status = "none"
    /\ faultAt = -1
    /\ ret = [kind |-> "none", res |-> U32(0)]

NextPlan == Call

SpecPlan == InitPlan /\ [][NextPlan]_vars

-----------------------------------------------------------------------------
(* Properties. *)

Ok == "cudaSuccess"

\* The operation returned cudaSuccess and every kernel it launched has completed.
Completed == host = "done" /\ status = Ok /\ stream = << >> /\ devErr = Ok

IsCostVolume == op = "computeCostVolume"
IsBias == op = "addDBiasTo3DConv"
IsConvert == op \in {"fp32Tofp16", "fp16Tofp32"}
IsBlockCount == op = "getBlockCount"

LeftBuf == [name |-> "left", pat |-> in.pat]
RightBuf == [name |-> "right", pat |-> in.pat]

\* Indices stored so far, and the indices stored by launch number n.
Stored == {e[1] : e \in writes}
StoredBy(n) == {e[1] : e \in {x \in writes : x[2][1] = n}}

(* C1: after computeCostVolume has returned success and both kernels have
   completed, for every d, c, y, x the left half of slice d holds left[c,y,x]
   and the right half holds right[c,y,x-d] if x >= d, else 0. *)
C1_CostVolumeContents ==
    (IsCostVolume /\ Completed) =>
        \A d \in 0 .. in.disp - 1, c \in 0 .. in.c - 1,
           y \in 0 .. in.h - 1, x \in 0 .. in.w - 1 :
            LET chw == in.c * in.h * in.w
                off == c * in.h * in.w + y * in.w + x
                l   == d * 2 * chw + off
                r   == d * 2 * chw + chw + off
            IN  /\ l \in DOMAIN dst /\ dst[l] = Load(LeftBuf, off)
                /\ r \in DOMAIN dst
                /\ dst[r] = IF x >= d THEN Load(RightBuf, off - d) ELSE 0

\* The spec's example C=1, H=1, W=4, D=2, left=[1,2,3,4], right=[10,20,30,40].
C1_Witness ==
    /\ IsCostVolume /\ Completed
    /\ in = [c |-> 1, h |-> 1, w |-> 4, disp |-> 2, pat |-> 1]
    /\ [i \in 0 .. 15 |-> dst[i]]
         = [i \in 0 .. 15 |-> <<1, 2, 3, 4, 10, 20, 30, 40, 1, 2, 3, 4, 0, 10, 20, 30>>[i + 1]]

(* C2: after addDBiasTo3DConv has returned success and its kernel has
   completed, conv'[k,y,x] = conv[k,y,x] + bias[k mod D] for every k in
   [0, N*D) and every (y,x), each element having been stored exactly once by
   exactly one thread, whatever the order in which the threads ran. *)
C2_BiasAdded ==
    (IsBias /\ Completed) =>
        /\ \A k \in 0 .. in.n * in.d - 1, y \in 0 .. in.h - 1, x \in 0 .. in.w - 1 :
              LET i == k * in.h * in.w + y * in.w + x IN
              /\ i \in DOMAIN dst
              /\ dst[i] = Load([name |-> "conv", pat |-> in.pat], i)
                          + Load([name |-> "bias", pat |-> in.pat], k % in.d)
              /\ Cardinality(WritersOf(i)) = 1
        /\ Stored = 0 .. in.n * in.d * in.h * in.w - 1

\* Two batches of two depth slices with a non-zero bias.
C2_Witness ==
    /\ IsBias /\ Completed
    /\ in = [n |-> 2, d |-> 2, h |-> 1, w |-> 1, pat |-> 1]
    /\ [i \in 0 .. 3 |-> dst[i]] = [i \in 0 .. 3 |-> <<105, 207, 109, 211>>[i + 1]]

(* C3: in computeCostVolume no two threads, within or across the two kernels,
   store to the same destination element, every store lands inside
   [0, 2*C*H*W*D), the indices stored by the two kernels are disjoint, and
   once both kernels have completed the stores cover exactly that range. *)
C3_DisjointCover ==
    IsCostVolume =>
        /\ \A e1 \in writes, e2 \in writes : e1[1] = e2[1] => e1 = e2
        /\ \A e \in writes : 0 <= e[1] /\ e[1] < 2 * in.c * in.h * in.w * in.disp
        /\ StoredBy(1) \cap StoredBy(2) = {}
        /\ Completed => Stored = 0 .. 2 * in.c * in.h * in.w * in.disp - 1

\* Both kernels ran over two channel blocks and two disparities.
C3_Witness ==
    /\ IsCostVolume /\ Completed
    /\ in.c = 2 /\ in.w = 2 /\ in.disp = 2
    /\ StoredBy(1) # {} /\ StoredBy(2) # {}

(* C4: the launch error is queried after every launch and before the next
   one; a query that reports an error ends the operation with exactly that
   status and no further launch; an operation returns cudaSuccess only if the
   query after each of its launches reported success. *)
C4_ErrorPropagation ==
    ~ IsBlockCount =>
        /\ Len(checked) <= launched /\ launched <= Len(checked) + 1
        /\ host = "launch" => launched = Len(checked)
        /\ \A i \in 1 .. Len(checked) :
              checked[i] # Ok =>
                  /\ i = Len(checked) /\ launched = i
                  /\ host = "done" /\ status = checked[i]
        /\ status = Ok =>
              /\ Len(checked) = Len(KernelsOf(op))
              /\ \A i \in 1 .. Len(checked) : checked[i] = Ok

\* The check after costVolumeCopyKernel failed: the pad kernel was never launched.
C4_Witness ==
    /\ IsCostVolume /\ host = "done"
    /\ launched = 1 /\ checked = <<"cudaErrorLaunchOutOfResources">>
    /\ status = "cudaErrorLaunchOutOfResources"

\* total_size + block_size - 1 does not fit in 32 bits (block_size >= 1).
Overflows(total_size, block_size) ==
    block_size >= 1 /\ LimbsLT(U32Add(total_size, U32(block_size - 1)), total_size)

\* res = ceil(total_size / block_size) >= 1, in unbounded arithmetic.
IsCeil(res, total_size, block_size) ==
    /\ LimbsLT(U32(0), res)
    /\ LimbsLT(MulWide(U32Sub(res, U32(1)), block_size), Widen(total_size))
    /\ LimbsLE(Widen(total_size), MulWide(res, block_size))

(* C5: whenever getBlockCount returns for blockSize > 0 and total > 0, the
   result is ceil(total / blockSize), is >= 1 and result * blockSize >= total. *)
C5_Claim ==
    (IsBlockCount /\ ret.kind = "return" /\ in.bs > 0 /\ in.total # U32(0)) =>
        IsCeil(ret.res, in.total, in.bs)

(* C6: when blockSize = 0 or total + blockSize - 1 overflows 32 bits, the call
   does not return a block count: it ends fatally (in an assertion failure,
   or for blockSize = 0 in the division trap that precedes the assertions). *)
C6_Claim ==
    (IsBlockCount /\ host = "done" /\ (in.bs = 0 \/ Overflows(in.total, in.bs))) =>
        ret.kind # "return"

(* C7: for fp32Tofp16 and fp16Tofp32 called with any element count size (a
   size_t), a grid that the operation launches (one the device accepts) has a
   thread for each element index i in [0, size): g_dim.x * 256 >= size, with
   g_dim.y = g_dim.z = 1 (so that, each thread tid < size storing dst[tid]
   and nothing else, every dst[i] with i < size is written exactly once). *)
C7_Claim ==
    (IsConvert /\ host = "launch" /\ LaunchConfigError(grid) = Ok) =>
        /\ grid[2] = U32(1) /\ grid[3] = U32(1)
        /\ LimbsLE(in.size, MulWide(grid[1], BlockDim1D[1]))

CeilDiv(n, b) == (n + b - 1) \div b

\* The grid the operation asks for has a y- or z-extent above 65535.
OverLimit ==
    \/ /\ IsCostVolume
       /\ CeilDiv(in.h, BlockDim2D[2]) > 65535 \/ in.c > 65535
    \/ /\ IsBias
       /\ CeilDiv(in.h, BlockDim2D[2]) > 65535 \/ in.n * in.d > 65535

(* C8: when the grid of addDBiasTo3DConv or computeCostVolume has a y- or
   z-extent above 65535, the operation reports failure, no kernel runs and no
   destination element is modified; it never returns success. *)
C8_GridLimit ==
    OverLimit =>
        /\ status # Ok
        /\ writes = {} /\ DOMAIN dst = {} /\ stream = << >>
        /\ host = "done" => status \in {"cudaErrorInvalidConfiguration", "assert"}

\* computeCostVolume with C = 65536 ended with the launch error.
C8_Witness ==
    /\ OverLimit /\ IsCostVolume /\ in.c > 65535
    /\ host = "done" /\ status = "cudaErrorInvalidConfiguration" /\ launched = 1

(* C9: in a debug build the operation waits for the stream to drain after
   every successful launch check, before any further launch and before
   returning success, and a fault of a kernel it launched is returned as its
   own status with no further kernel launched; in a release build no
   operation ever waits on the stream. *)
C9_DebugBarrier ==
    ~ IsBlockCount =>
        /\ (debug /\ host = "launch") => (stream = << >> /\ devErr = Ok)
        /\ (debug /\ status = Ok) => (stream = << >> /\ devErr = Ok)
        /\ (debug /\ faultAt >= 0) =>
              /\ launched = faultAt
              /\ host = "done" => status = devErr
        /\ ~ debug => host # "sync"

\* Debug build: the copy kernel faulted, the fault was returned and the pad
\* kernel was never launched.
C9_Witness ==
    /\ IsCostVolume /\ debug /\ host = "done"
    /\ faultAt = 1 /\ launched = 1 /\ status = "cudaErrorIllegalAddress"
    /\ checked = <<Ok>>

\* The stores <<index, value>> of a launch of the single-pass kernel, and of
\* the two launches of computeCostVolume, with arguments a over the grid g.
SinglePassStores(a, g) ==
    UNION { { costVolumeKernel(t, [name |-> "left", pat |-> a.pat],
                               [name |-> "right", pat |-> a.pat],
                               a.c, a.h, a.w, a.disp)[n] : n \in 1 .. 2 * a.disp }
            : t \in {u \in GridThreads(g, BlockDim2D) :
                        ~ (ThreadIx(u, BlockDim2D) >= a.w
                           \/ ThreadIy(u, BlockDim2D) >= a.h
                           \/ ThreadIz(u, BlockDim2D) >= a.c)} }

TwoKernelStores(a, g) ==
    UNION { { costVolumeCopyKernel(t, [name |-> "left", pat |-> a.pat],
                                   a.c, a.h, a.w, a.disp)[n] : n \in 1 .. a.disp }
            \cup
            { costVolumeCopyPadKernel(t, [name |-> "right", pat |-> a.pat],
                                      a.c, a.h, a.w, a.disp)[n] : n \in 1 .. a.disp }
            : t \in {u \in GridThreads(g, BlockDim2D) :
                        ~ (ThreadIx(u, BlockDim2D) >= a.w
                           \/ ThreadIy(u, BlockDim2D) >= a.h
                           \/ ThreadIz(u, BlockDim2D) >= a.c)} }

\* No index is stored with two different values: the result is order-free.
Functional(S) == \A p \in S, q \in S : p[1] = q[1] => p[2] = q[2]

GridInts == <<U32Val(grid[1]), U32Val(grid[2]), U32Val(grid[3])>>

GridFor(a) ==
    LET o == CHOOSE x \in CostVolumeGrid(a, TRUE) : TRUE
    IN  <<U32Val(o.g[1]), U32Val(o.g[2]), U32Val(o.g[3])>>

(* C10 as claimed: for some shape C,H,W,D and some inputs, costVolumeKernel
   launched over the same grid leaves different contents in dst than
   costVolumeCopyKernel followed by costVolumeCopyPadKernel. *)
C10_Original ==
    (IsCostVolume /\ Completed) =>
        \E a \in {x \in CostVolumeArgs : x.c * x.h * x.w <= MaxActive} :
            SinglePassStores(a, GridFor(a)) # TwoKernelStores(a, GridFor(a))

(* C10 as amended: costVolumeKernel indexes the right-shift offset exactly as
   the two-kernel path does: for every modelled shape and input, launched
   over the same grid it stores to each element one value, and these are the
   contents computeCostVolume leaves in dst once both kernels completed. *)
C10_Equivalent ==
    (IsCostVolume /\ Completed) =>
        /\ Functional(SinglePassStores(in, GridInts))
        /\ {<<i, dst[i]>> : i \in DOMAIN dst} = SinglePassStores(in, GridInts)

\* A completed cost volume with a zero-filled right column (x < d).
C10_Witness ==
    /\ IsCostVolume /\ Completed
    /\ in = [c |-> 1, h |-> 2, w |-> 2, disp |-> 2, pat |-> 1]
    /\ <<12, 0>> \in SinglePassStores(in, GridInts)
    /\ dst[12] = 0 /\ dst[13] = 10

====
